---------------------------- MODULE Spec2Model ----------------------------
(***************************************************************************)
(* Tiled ("flash") attention of easydel/kernels/gpu_ops/                   *)
(* triton_flash_attention_2.py: the stride calculator, the validator, the  *)
(* forward kernel, the backward pre-pass, the backward kernel and the two  *)
(* launch orchestrators.                                                   *)
(*                                                                         *)
(* Arithmetic is exact.  A number is a pair <<n, d>>: a normalised         *)
(* fraction n/d when d > 0, NaN when <<0, 0>>, minus infinity when         *)
(* <<-1, 0>>, plus infinity when <<1, 0>>.  Floating-point rounding (the   *)
(* .to(dtype) casts) is not modelled.  exp is taken as the exact function  *)
(* x |-> 2^x on integer scores, and a                                      *)
(* log-domain quantity x (max_i, lse_i, max_ij, the L buffer) is held by   *)
(* its exponential 2^x: exp(a - b) is then the quotient, a + log(c) the    *)
(* product and maximum(a, b) the maximum.  The reference attention uses    *)
(* the same exp, so equalities between kernel and reference are decided by *)
(* the kernel's data flow, not by the choice of base.                      *)
(*                                                                         *)
(* Memory is linear: a buffer is a function from addresses 0..size-1, and  *)
(* every kernel access goes through the address its pointer arithmetic     *)
(* computes from the strides handed to it.  A masked-in load from outside  *)
(* the buffer, or from a cell nobody has stored to, yields the value       *)
(* `junk`, which is chosen nondeterministically.                           *)
(***************************************************************************)
EXTENDS Integers, Sequences, FiniteSets, TLC

\* ------------------------------------------------------------- bounds
MaxBatch == 2
MaxHeads == 2
MaxSeqQ == 3
MaxSeqK == 3
\* largest forward and pre-pass grid (work items of one launch) explored
MaxGrid == 4
\* largest grid of the backward main kernel explored
MaxBwdGrid == 2
\* tile sizes blocksize_q / blocksize_k of the kernel launches (scaled down)
BLOCK_M == 2
BLOCK_N == 2
\* head dimensions explored: powers of two, standing for {16,...,256}
HeadDims == {1, 2}
\* explicit softmax_scale values explored
Scales == {-1, 1, 2}
\* shapes given to get_strides on its own: rank up to MaxRank, axes up to MaxDim
MaxRank == 4
MaxDim == 3

\* ---------------------------------------------------------- arithmetic
NaN == <<0, 0>>
NegInf == <<-1, 0>>
PosInf == <<1, 0>>
Zero == <<0, 1>>
One == <<1, 1>>

Abs(x) == IF x < 0 THEN -x ELSE x

RECURSIVE GCD(_, _)
GCD(a, b) == IF b = 0 THEN a ELSE GCD(b, a % b)

Rat(n, d) ==
  LET g == GCD(Abs(n), Abs(d))
      s == IF d < 0 THEN -1 ELSE 1
  IN  <<(s * n) \div g, (s * d) \div g>>

R(n) == <<n, 1>>

IsNaN(x) == x = NaN
IsFinite(x) == x[2] > 0

\* a + b; an infinity absorbs every finite value, the two infinities add to
\* NaN, NaN absorbs everything
RAdd(a, b) ==
  IF a[2] = 1 /\ b[2] = 1 THEN <<a[1] + b[1], 1>>
  ELSE IF IsNaN(a) \/ IsNaN(b) THEN NaN
  ELSE IF a[2] = 0 THEN (IF b[2] = 0 /\ b # a THEN NaN ELSE a)
  ELSE IF b[2] = 0 THEN b
  ELSE IF a[2] = b[2] THEN Rat(a[1] + b[1], a[2])
  ELSE Rat(a[1] * b[2] + b[1] * a[2], a[2] * b[2])

RNeg(a) == <<-a[1], a[2]>>

RSub(a, b) == RAdd(a, RNeg(b))

\* a * b; an infinity times a non-zero value is the infinity of the product's
\* sign, 0 * inf and every product with NaN is NaN
RMul(a, b) ==
  IF a[2] = 1 /\ b[2] = 1 THEN <<a[1] * b[1], 1>>
  ELSE IF IsFinite(a) /\ IsFinite(b) THEN Rat(a[1] * b[1], a[2] * b[2])
  ELSE IF a[1] * b[1] > 0 THEN PosInf
  ELSE IF a[1] * b[1] < 0 THEN NegInf
  ELSE NaN

\* a / b; x / 0 is the infinity of x's sign, finite / inf is 0, and 0 / 0,
\* inf / inf and every quotient with NaN is NaN
RDiv(a, b) ==
  IF IsFinite(a) /\ IsFinite(b) /\ b[1] # 0
    THEN RMul(a, IF b[1] < 0 THEN <<-b[2], -b[1]>> ELSE <<b[2], b[1]>>)
  ELSE IF IsNaN(a) \/ IsNaN(b) THEN NaN
  ELSE IF IsFinite(a) /\ IsFinite(b) THEN (IF a[1] > 0 THEN PosInf ELSE IF a[1] < 0 THEN NegInf ELSE NaN)
  ELSE IF IsFinite(a) THEN Zero
  ELSE IF IsFinite(b) THEN (IF a[1] * b[1] > 0 THEN PosInf ELSE NegInf)
  ELSE NaN

RLe(a, b) == a[1] * b[2] <= b[1] * a[2]

\* tl.maximum / tl.max: the maximum that does not propagate NaN (the other
\* operand is returned); -inf is below every finite value
RMax(a, b) ==
  IF IsNaN(a) THEN b
  ELSE IF IsNaN(b) THEN a
  ELSE IF a = NegInf THEN b
  ELSE IF b = NegInf THEN a
  ELSE IF RLe(a, b) THEN b ELSE a

RECURSIVE Pow2(_)
Pow2(n) == IF n = 0 THEN 1 ELSE 2 * Pow2(n - 1)

\* tl.exp on a score: 2^x for an integer x, 0 for -inf, inf for inf, NaN for NaN
Exp2(x) ==
  CASE IsNaN(x) -> NaN
    [] x = NegInf -> Zero
    [] x = PosInf -> PosInf
    [] x[2] = 1 /\ x[1] >= 0 -> <<Pow2(x[1]), 1>>
    [] x[2] = 1 /\ x[1] < 0 -> <<1, Pow2(-x[1])>>

\* sum and maximum of f over the integer range lo..hi
RECURSIVE RSum(_, _, _)
RSum(f(_), lo, hi) == IF lo > hi THEN Zero ELSE RAdd(f(lo), RSum(f, lo + 1, hi))

RECURSIVE RMaxOver(_, _, _)
RMaxOver(f(_), lo, hi) == IF lo > hi THEN NegInf ELSE RMax(f(lo), RMaxOver(f, lo + 1, hi))

RECURSIVE Prod(_)
Prod(s) == IF s = <<>> THEN 1 ELSE Head(s) * Prod(Tail(s))

\* triton.cdiv
cdiv(a, b) == (a + b - 1) \div b

\* triton.next_power_of_2
RECURSIVE NextPow2From(_, _)
NextPow2From(n, p) == IF p >= n THEN p ELSE NextPow2From(n, 2 * p)
next_power_of_2(n) == NextPow2From(n, 1)

\* ------------------------------------------------------------- strides
\* get_strides with the append before the division: strides[i] = prod(shape[i:])
RECURSIVE strides_loop_append_first(_, _, _)
strides_loop_append_first(shape_, size, strides) ==
  IF shape_ = <<>> THEN strides
  ELSE strides_loop_append_first(Tail(shape_), size \div Head(shape_), Append(strides, size))

\* get_strides: size = prod(shape); for s in shape: size //= s; append(size)
RECURSIVE strides_loop(_, _, _)
strides_loop(shape, size, strides) ==
  IF shape = <<>> THEN strides
  ELSE LET size2 == size \div Head(shape)
       IN  strides_loop(Tail(shape), size2, Append(strides, size2))

get_strides(shape) == strides_loop(shape, Prod(shape), <<>>)

\* --------------------------------------------------------------- state
VARIABLES
  args,     \* the call's arguments: batch, nheads, seqlen_q, seqlen_k, headdim,
            \* bias (present or None), softmax_scale
  FLASH_ATTN_BWD_,  \* the module flag selecting the tiled backward pass
  junk,     \* what uninitialised or out-of-buffer memory holds
  Q, K, V, B, Do,   \* input buffers: query, key, value, bias, output gradient
  phase,    \* position of the host program
  kargs,    \* the arguments triton_call bound to the running kernel's parameters
  O, L,     \* forward outputs: output and log-sum-exp (held as 2^lse)
  De,       \* delta buffer of the backward pre-pass
  Dq, Dk, Dv,  \* backward outputs
  fw,       \* forward work items: program id -> local state
  pw,       \* pre-pass work items: program id -> local state
  bw,       \* backward work items: program id -> local state
  stores,   \* every tl.store executed: buffer, address, work item, launch, step
  grads,    \* what the gradient rule returned
  dq_sum,   \* per address of Dq, the sum of the contributions stored to it
  shape, strides_out, call   \* state of the stride and validator specifications

inputs == <<args, FLASH_ATTN_BWD_, junk, Q, K, V, B, Do>>
aux == <<shape, strides_out, call>>
vars == <<inputs, phase, kargs, O, L, De, Dq, Dk, Dv, fw, pw, bw, stores, grads, dq_sum, aux>>

None == "None"

batch == args.batch
nheads == args.nheads
seqlen_q == args.seqlen_q
seqlen_k == args.seqlen_k
headdim == args.headdim
HAVE_BIAS == args.bias # None
softmax_scale == R(args.softmax_scale)

query_shape == <<batch, seqlen_q, nheads, headdim>>
key_shape == <<batch, seqlen_k, nheads, headdim>>
value_shape == <<batch, seqlen_k, nheads, headdim>>
bias_shape == <<batch, nheads, seqlen_q, seqlen_k>>
l_shape == <<batch, nheads, seqlen_q>>

Cells(shp) == 0 .. (Prod(shp) - 1)

\* tl.load: `other` where the mask is off, the cell where the address is in
\* the buffer, and junk where it is not
Load(buf, addr, mask, other) ==
  IF ~mask THEN other
  ELSE IF addr \in DOMAIN buf THEN buf[addr] ELSE junk

\* tl.store of the cells val (address -> value) into buf: cells outside the
\* buffer are not part of it
Store(buf, val) ==
  [a \in DOMAIN buf |-> IF a \in DOMAIN val THEN val[a] ELSE buf[a]]

StoreEvents(name, val, w, launch, step) ==
  {[buf |-> name, addr |-> a, by |-> w, launch |-> launch, at |-> step] : a \in DOMAIN val}

\* metaparameters
BLOCK_HEADDIM == next_power_of_2(headdim)
EVEN_M == seqlen_q % BLOCK_M = 0
EVEN_N == seqlen_k % BLOCK_N = 0
EVEN_HEADDIM == headdim = BLOCK_HEADDIM

RowsM == 0 .. (BLOCK_M - 1)
ColsN == 0 .. (BLOCK_N - 1)
ColsD == 0 .. (BLOCK_HEADDIM - 1)

\* the cells a masked tile store writes: address -> value, over the tile
\* elements (row, column) of `on`, the elements whose mask is on
TileCells(on, addrOf(_, _), valOf(_, _)) ==
  LET cells == {<<addrOf(p[1], p[2]), valOf(p[1], p[2])>> : p \in on}
  IN  [a \in {c[1] : c \in cells} |-> (CHOOSE c \in cells : c[1] = a)[2]]

\* int1 & int32 in a Triton expression: the int1 is zero-extended, so the
\* result is the low bit of n where c holds and 0 elsewhere
BitAnd(c, n) == IF c THEN n % 2 ELSE 0

\* ------------------------------------------------------ forward kernel
\* the launch grid of _fwd_attn_kernel_call
fwd_grid ==
  (0 .. (cdiv(seqlen_q, BLOCK_M) - 1)) \X (0 .. (batch - 1)) \X (0 .. (nheads - 1))

\* the strides _fwd_attn_kernel_call binds to the kernel's parameters
fwd_strides ==
  LET q == get_strides(query_shape)
      k == get_strides(key_shape)
      v == get_strides(value_shape)
      b == IF HAVE_BIAS THEN get_strides(bias_shape) ELSE <<0, 0, 0, 0>>
      l == get_strides(l_shape)
  IN  [stride_qb |-> q[1], stride_qh |-> q[3], stride_qm |-> q[2],
       stride_kb |-> k[1], stride_kh |-> k[3], stride_kn |-> k[2],
       stride_vb |-> v[1], stride_vh |-> v[3], stride_vn |-> v[2],
       stride_bb |-> b[1], stride_bh |-> b[2], stride_bm |-> b[3], stride_bn |-> b[4],
       stride_ob |-> q[1], stride_oh |-> q[3], stride_om |-> q[2],
       stride_lb |-> l[1], stride_lh |-> l[2]]

\* offs_m without the tile size: consecutive query tiles overlap
fwd_offs_m_unscaled(w, i) == w[1] + i

\* work item w = <<start_m, off_b, off_h>>
fwd_offs_m(w, i) == w[1] * BLOCK_M + i

fwd_q_mask(w, i, d) ==
  IF EVEN_N /\ EVEN_M
    THEN (IF EVEN_HEADDIM THEN TRUE ELSE d < headdim)
    ELSE (IF EVEN_HEADDIM THEN fwd_offs_m(w, i) < seqlen_q
          ELSE fwd_offs_m(w, i) < seqlen_q /\ d < headdim)

fwd_q(w) ==
  [i \in RowsM |-> [d \in ColsD |->
    Load(Q, w[2] * kargs.stride_qb + w[3] * kargs.stride_qh
            + fwd_offs_m(w, i) * kargs.stride_qm + d,
         fwd_q_mask(w, i, d), Zero)]]

fwd_kv_mask(j, n, d) ==
  IF EVEN_N
    THEN (IF EVEN_HEADDIM THEN TRUE ELSE d < headdim)
    ELSE (IF EVEN_HEADDIM THEN j + n < seqlen_k
          ELSE j + n < seqlen_k /\ d < headdim)

fwd_k(w, j) ==
  [n \in ColsN |-> [d \in ColsD |->
    Load(K, w[2] * kargs.stride_kb + w[3] * kargs.stride_kh + n * kargs.stride_kn + d
            + j * kargs.stride_kn,
         fwd_kv_mask(j, n, d), Zero)]]

fwd_v(w, j) ==
  [n \in ColsN |-> [d \in ColsD |->
    Load(V, w[2] * kargs.stride_vb + w[3] * kargs.stride_vh + n * kargs.stride_vn + d
            + j * kargs.stride_vn,
         fwd_kv_mask(j, n, d), Zero)]]

\* the mask of the bias load: `(offs_m < seqlen_q) & (j + offs_n) < seqlen_k`
\* parses as ((offs_m < seqlen_q) & (j + offs_n)) < seqlen_k
fwd_b_mask(w, j, i, n) ==
  IF EVEN_N /\ EVEN_M THEN TRUE
  ELSE BitAnd(fwd_offs_m(w, i) < seqlen_q, j + n) < seqlen_k

\* the strides of the bias bound to the kernel: batch, head, row
bias_strides == <<kargs.stride_bb, kargs.stride_bh, kargs.stride_bm>>

\* b_ptrs + j for the bias strides sb
fwd_b_addr(sb, w, j, i, n) ==
  w[2] * sb[1] + w[3] * sb[2] + fwd_offs_m(w, i) * sb[3] + n + j

\* the bias tile loaded from the buffer bound to B
fwd_b(buf, sb, w, j) ==
  [i \in RowsM |-> [n \in ColsN |->
    Load(buf, fwd_b_addr(sb, w, j, i, n), fwd_b_mask(w, j, i, n), Zero)]]

\* the accumulators before the first key tile
fwd_start ==
  [pc |-> "scan", j |-> 0,
   lse_i |-> [i \in RowsM |-> Zero],     \* -inf, held as 2^(-inf)
   max_i |-> [i \in RowsM |-> Zero],
   acc_o |-> [i \in RowsM |-> [d \in ColsD |-> Zero]]]

\* tl.dot(a, b.T): rows of a against rows of b
DotT(a, b) ==
  [i \in DOMAIN a |-> [n \in DOMAIN b |->
    RSum(LAMBDA d : RMul(a[i][d], b[n][d]), 0, BLOCK_HEADDIM - 1)]]

\* qk after the padding of out-of-range key positions with -inf
fwd_qk_pad(dot, j) ==
  [i \in RowsM |-> [n \in ColsN |->
    IF ~EVEN_N THEN RAdd(dot[i][n], IF j + n < seqlen_k THEN Zero ELSE NegInf)
    ELSE dot[i][n]]]

\* with bias: qk = qk * softmax_scale + b
fwd_qk_bias(qk, b) ==
  [i \in RowsM |-> [n \in ColsN |-> RAdd(RMul(qk[i][n], softmax_scale), b[i][n])]]

RowMax(row) == RMaxOver(LAMBDA n : row[n], 0, BLOCK_N - 1)
RowSum(row) == RSum(LAMBDA n : row[n], 0, BLOCK_N - 1)

\* max_ij from the tile alone: the running value is forgotten
fwd_max_ij_tile_only(have_bias, qk, lse_i) ==
  [i \in RowsM |->
    IF have_bias THEN Exp2(RowMax(qk[i]))
    ELSE Exp2(RMul(RowMax(qk[i]), softmax_scale))]

\* max_ij: maximum of the tile's row maximum and lse_i
fwd_max_ij(have_bias, qk, lse_i) ==
  [i \in RowsM |->
    IF have_bias THEN RMax(Exp2(RowMax(qk[i])), lse_i[i])
    ELSE RMax(Exp2(RMul(RowMax(qk[i]), softmax_scale)), lse_i[i])]

\* p = exp(qk - max_ij), or exp(qk * softmax_scale - max_ij) without bias
fwd_p(have_bias, qk, max_ij) ==
  [i \in RowsM |-> [n \in ColsN |->
    IF have_bias THEN RDiv(Exp2(qk[i][n]), max_ij[i])
    ELSE RDiv(Exp2(RMul(qk[i][n], softmax_scale)), max_ij[i])]]

\* acc_o = acc_o * exp(max_i - max_ij) + dot(p, v)
fwd_acc_o(acc_o, max_i, max_ij, p, v) ==
  [i \in RowsM |-> [d \in ColsD |->
    RAdd(RMul(acc_o[i][d], RDiv(max_i[i], max_ij[i])),
         RSum(LAMBDA n : RMul(p[i][n], v[n][d]), 0, BLOCK_N - 1))]]

\* lse_i = max_ij + log(exp(lse_i - max_ij) + l_ij)
fwd_lse_i(lse_i, max_ij, p) ==
  [i \in RowsM |-> RMul(max_ij[i], RAdd(RDiv(lse_i[i], max_ij[i]), RowSum(p[i])))]

\* qk before the row maximum; b is the bias tile, loaded only with a bias
fwd_tile_qk(have_bias, b, w, j) ==
  IF have_bias THEN fwd_qk_bias(fwd_qk_pad(DotT(fwd_q(w), fwd_k(w, j)), j), b)
  ELSE fwd_qk_pad(DotT(fwd_q(w), fwd_k(w, j)), j)

fwd_tile_update(st, w, qk, max_ij, p) ==
  [pc |-> IF st.j + BLOCK_N < seqlen_k THEN "scan" ELSE "store",
   j |-> st.j + BLOCK_N,
   lse_i |-> fwd_lse_i(st.lse_i, max_ij, p),
   max_i |-> max_ij,
   acc_o |-> fwd_acc_o(st.acc_o, st.max_i, max_ij, p, fwd_v(w, st.j))]

fwd_tile_p(have_bias, st, w, qk, max_ij) ==
  fwd_tile_update(st, w, qk, max_ij, fwd_p(have_bias, qk, max_ij))

fwd_tile_max(have_bias, st, w, qk) ==
  fwd_tile_p(have_bias, st, w, qk, fwd_max_ij(have_bias, qk, st.lse_i))

\* one iteration of `for j in range(0, seqlen_k, BLOCK_N)`
fwd_tile(w, st) ==
  fwd_tile_max(HAVE_BIAS, st, w, fwd_tile_qk(HAVE_BIAS, fwd_b(B, bias_strides, w, st.j), w, st.j))

\* the epilogue: o_scale = exp(max_i - lse_i), then the two stores
fwd_lse_mask(w, i) == fwd_offs_m(w, i) < seqlen_q

fwd_lse_cells(w, st) ==
  TileCells({p \in RowsM \X {0} : fwd_lse_mask(w, p[1])},
            LAMBDA i, d : w[2] * kargs.stride_lb + w[3] * kargs.stride_lh + fwd_offs_m(w, i),
            LAMBDA i, d : st.lse_i[i])

fwd_out_mask(w, i, d) ==
  IF EVEN_M
    THEN (IF EVEN_HEADDIM THEN TRUE ELSE d < headdim)
    ELSE (IF EVEN_HEADDIM THEN fwd_offs_m(w, i) < seqlen_q
          ELSE fwd_offs_m(w, i) < seqlen_q /\ d < headdim)

fwd_out_cells(w, st) ==
  TileCells({p \in RowsM \X ColsD : fwd_out_mask(w, p[1], p[2])},
            LAMBDA i, d : w[2] * kargs.stride_ob + w[3] * kargs.stride_oh
                          + fwd_offs_m(w, i) * kargs.stride_om + d,
            LAMBDA i, d : RMul(st.acc_o[i][d], RDiv(st.max_i[i], st.lse_i[i])))

\* ------------------------------------------------- backward pre-pass
\* the launch grid _bwd_attn_kernel_call gives _bwd_do_attn_kernel
pre_grid ==
  (0 .. (cdiv(seqlen_q, BLOCK_M) - 1)) \X (0 .. (batch - 1)) \X (0 .. (nheads - 1))

\* the strides bound to the pre-pass parameters, in the order of the call:
\* (stride_qb, stride_qh, stride_qm) lands on (stride_ob, stride_om, stride_oh)
\* and on (stride_dob, stride_dom, stride_doh)
pre_strides ==
  LET q == get_strides(query_shape)
      de == get_strides(l_shape)
      stride_qb == q[1]
      stride_qm == q[2]
      stride_qh == q[3]
  IN  [stride_ob |-> stride_qb, stride_om |-> stride_qh, stride_oh |-> stride_qm,
       stride_dob |-> stride_qb, stride_dom |-> stride_qh, stride_doh |-> stride_qm,
       stride_deb |-> de[1], stride_deh |-> de[2]]

\* work item w = <<program_id(0), program_id(1), program_id(2)>>; the kernel
\* reads only the first two and splits the second into batch and head
pre_off_b(w) == w[2] \div nheads
pre_off_h(w) == w[2] % nheads
pre_offs_m(w, i) == w[1] * BLOCK_M + i

pre_mask(w, i, d) == pre_offs_m(w, i) < seqlen_q /\ d < headdim

pre_o(w) ==
  [i \in RowsM |-> [d \in ColsD |->
    Load(O, pre_off_b(w) * kargs.stride_ob + pre_off_h(w) * kargs.stride_oh
            + pre_offs_m(w, i) * kargs.stride_om + d,
         pre_mask(w, i, d), Zero)]]

pre_do(w) ==
  [i \in RowsM |-> [d \in ColsD |->
    Load(Do, pre_off_b(w) * kargs.stride_dob + pre_off_h(w) * kargs.stride_doh
             + pre_offs_m(w, i) * kargs.stride_dom + d,
         pre_mask(w, i, d), Zero)]]

\* delta = sum(o * do, axis=1)
pre_delta(o, do) ==
  [i \in RowsM |-> RSum(LAMBDA d : RMul(o[i][d], do[i][d]), 0, BLOCK_HEADDIM - 1)]

pre_cells(w, delta) ==
  TileCells({p \in RowsM \X {0} : pre_offs_m(w, p[1]) < seqlen_q},
            LAMBDA i, d : pre_off_b(w) * kargs.stride_deb + pre_off_h(w) * kargs.stride_deh
                          + pre_offs_m(w, i),
            LAMBDA i, d : delta[i])

\* -------------------------------------------------- backward main kernel
\* the launch grid _bwd_attn_kernel_call gives _bwd_attn_kernel
bwd_grid ==
  (0 .. (cdiv(seqlen_k, BLOCK_N) - 1)) \X {0} \X (0 .. (batch * nheads - 1))

\* the strides bound to the main kernel's parameters
bwd_strides ==
  LET q == get_strides(query_shape)
      k == get_strides(key_shape)
      v == get_strides(value_shape)
      b == IF HAVE_BIAS THEN SubSeq(get_strides(bias_shape), 1, 3) ELSE <<0, 0, 0>>
      l == get_strides(l_shape)
  IN  [stride_qb |-> q[1], stride_qh |-> q[3], stride_qm |-> q[2],
       stride_kb |-> k[1], stride_kh |-> k[3], stride_kn |-> k[2],
       stride_vb |-> v[1], stride_vh |-> v[3], stride_vn |-> v[2],
       stride_bb |-> b[1], stride_bh |-> b[2], stride_bm |-> b[3],
       stride_dob |-> q[1], stride_doh |-> q[3], stride_dom |-> q[2],
       stride_dqb |-> q[1], stride_dqh |-> q[3], stride_dqm |-> q[2],
       stride_dkb |-> k[1], stride_dkh |-> k[3], stride_dkn |-> k[2],
       stride_dvb |-> v[1], stride_dvh |-> v[3], stride_dvn |-> v[2],
       stride_lb |-> l[1], stride_lh |-> l[2]]

\* work item w = <<off_n, program_id(1), off_bh>>
bwd_off_h(w) == w[3] % nheads
bwd_off_b(w) == w[3] \div nheads
\* offs_n without the tile size: consecutive key tiles overlap
bwd_offs_n_unscaled(w, n) == w[1] + n

bwd_offs_n(w, n) == w[1] * BLOCK_N + n

bwd_kv_mask(w, n, d) == bwd_offs_n(w, n) < seqlen_k /\ d < headdim

bwd_k(w) ==
  [n \in ColsN |-> [d \in ColsD |->
    Load(K, bwd_off_b(w) * kargs.stride_kb + bwd_offs_n(w, n) * kargs.stride_kn
            + bwd_off_h(w) * kargs.stride_kh + d,
         bwd_kv_mask(w, n, d), Zero)]]

bwd_v(w) ==
  [n \in ColsN |-> [d \in ColsD |->
    Load(V, bwd_off_b(w) * kargs.stride_vb + bwd_offs_n(w, n) * kargs.stride_vn
            + bwd_off_h(w) * kargs.stride_vh + d,
         bwd_kv_mask(w, n, d), Zero)]]

\* the row mask of the loop: m_loop_offs = start_m + offs_m
bwd_m_mask(start_m, i, d) == start_m + i < seqlen_q /\ d < headdim

\* q_ptrs + start_m: the loop adds start_m to the addresses of the first tile
bwd_q(w, start_m) ==
  [i \in RowsM |-> [d \in ColsD |->
    Load(Q, bwd_off_b(w) * kargs.stride_qb + i * kargs.stride_qm
            + bwd_off_h(w) * kargs.stride_qh + d + start_m,
         bwd_m_mask(start_m, i, d), Zero)]]

bwd_do(w, start_m) ==
  [i \in RowsM |-> [d \in ColsD |->
    Load(Do, bwd_off_b(w) * kargs.stride_dob + i * kargs.stride_dom
             + bwd_off_h(w) * kargs.stride_doh + d + start_m,
         bwd_m_mask(start_m, i, d), Zero)]]

\* l is a logarithm, held as its exponential: other=0.0 is 2^0
bwd_l(w, start_m) ==
  [i \in RowsM |->
    Load(L, bwd_off_b(w) * kargs.stride_lb + bwd_off_h(w) * kargs.stride_lh + i + start_m,
         start_m + i < seqlen_q, One)]

bwd_di(w, start_m) ==
  [i \in RowsM |->
    Load(De, bwd_off_b(w) * kargs.stride_lb + bwd_off_h(w) * kargs.stride_lh + i + start_m,
         start_m + i < seqlen_q, Zero)]

bwd_b(buf, sb, w, start_m) ==
  [i \in RowsM |-> [n \in ColsN |->
    Load(buf, bwd_off_b(w) * sb[1] + bwd_off_h(w) * sb[2]
              + i * sb[3] + bwd_offs_n(w, n) + start_m,
         start_m + i < seqlen_q /\ bwd_offs_n(w, n) < seqlen_k, Zero)]]

bwd_qk_pad(w, dot) ==
  [i \in RowsM |-> [n \in ColsN |->
    IF ~EVEN_N THEN RAdd(dot[i][n], IF bwd_offs_n(w, n) < seqlen_k THEN Zero ELSE NegInf)
    ELSE dot[i][n]]]

\* p = exp(qk * softmax_scale + b - l), or exp(qk * softmax_scale - l)
bwd_p(have_bias, b, qk, l) ==
  IF have_bias
    THEN [i \in RowsM |-> [n \in ColsN |->
           RDiv(Exp2(RAdd(RMul(qk[i][n], softmax_scale), b[i][n])), l[i])]]
    ELSE [i \in RowsM |-> [n \in ColsN |->
           RDiv(Exp2(RMul(qk[i][n], softmax_scale)), l[i])]]

\* ds = p * (dp - di) * softmax_scale with dp = dot(do, v.T)
bwd_ds(p, dp, di) ==
  [i \in RowsM |-> [n \in ColsN |->
    RMul(RMul(p[i][n], RSub(dp[i][n], di[i])), softmax_scale)]]

\* acc + dot(a.T, b): columns of a against columns of b, over the rows
bwd_acc(acc, a, b) ==
  [n \in ColsN |-> [d \in ColsD |->
    RAdd(acc[n][d], RSum(LAMBDA i : RMul(a[i][n], b[i][d]), 0, BLOCK_M - 1))]]

\* dq = dot(ds, k)
bwd_dq(ds, k) ==
  [i \in RowsM |-> [d \in ColsD |->
    RSum(LAMBDA n : RMul(ds[i][n], k[n][d]), 0, BLOCK_N - 1)]]

bwd_dq_addr(w, start_m, i, d) ==
  bwd_off_b(w) * kargs.stride_dqb + i * kargs.stride_dqm
  + bwd_off_h(w) * kargs.stride_dqh + d + start_m

\* the cells of dq the mask of the load and store of Dq lets through
bwd_dq_cells(w, start_m, dq) ==
  TileCells({p \in RowsM \X ColsD : bwd_m_mask(start_m, p[1], p[2])},
            LAMBDA i, d : bwd_dq_addr(w, start_m, i, d),
            LAMBDA i, d : dq[i][d])

\* res = dq + pq, with pq loaded from Dq now
bwd_res(dqc) == [a \in DOMAIN dqc |-> RAdd(dqc[a], Load(Dq, a, TRUE, Zero))]

\* the accumulators before the first query tile
bwd_start ==
  [pc |-> "load", start_m |-> 0,
   dv |-> [n \in ColsN |-> [d \in ColsD |-> Zero]],
   dk |-> [n \in ColsN |-> [d \in ColsD |-> Zero]],
   dq |-> <<>>, res |-> <<>>]

bwd_tile_update(st, w, q, do, p, ds, dq) ==
  [pc |-> "store", start_m |-> st.start_m,
   dv |-> bwd_acc(st.dv, p, do),
   dk |-> bwd_acc(st.dk, ds, q),
   dq |-> dq,
   res |-> bwd_res(dq)]

bwd_tile_ds(st, w, q, k, do, p, ds) ==
  bwd_tile_update(st, w, q, do, p, ds, bwd_dq_cells(w, st.start_m, bwd_dq(ds, k)))

bwd_tile_p(st, w, q, k, do, p) ==
  bwd_tile_ds(st, w, q, k, do, p, bwd_ds(p, DotT(do, bwd_v(w)), bwd_di(w, st.start_m)))

bwd_tile_qk(have_bias, b, st, w, q, k) ==
  bwd_tile_p(st, w, q, k, bwd_do(w, st.start_m),
             bwd_p(have_bias, b, bwd_qk_pad(w, DotT(q, k)), bwd_l(w, st.start_m)))

\* one iteration of `for start_m in range(0, seqlen_q, BLOCK_M)` up to the
\* load of pq
bwd_tile(w, st) ==
  bwd_tile_qk(HAVE_BIAS, bwd_b(B, bias_strides, w, st.start_m), st, w, bwd_q(w, st.start_m), bwd_k(w))

bwd_dkv_cells(w, acc, stride_b, stride_n, stride_h) ==
  TileCells({p \in ColsN \X ColsD : bwd_kv_mask(w, p[1], p[2])},
            LAMBDA n, d : bwd_off_b(w) * stride_b + bwd_offs_n(w, n) * stride_n
                          + bwd_off_h(w) * stride_h + d,
            LAMBDA n, d : acc[n][d])

bwd_dv_cells(w, st) ==
  bwd_dkv_cells(w, st.dv, kargs.stride_dvb, kargs.stride_dvn, kargs.stride_dvh)

bwd_dk_cells(w, st) ==
  bwd_dkv_cells(w, st.dk, kargs.stride_dkb, kargs.stride_dkn, kargs.stride_dkh)

\* -------------------------------------------------- reference attention
\* logical element (b, m, h, d) of a (batch, seq, nheads, headdim) tensor and
\* (b, h, m, n) of the bias, row-major
Elem4(buf, seq, b, m, h, d) == buf[((b * seq + m) * nheads + h) * headdim + d]
ElemB(b, h, m, n) ==
  IF HAVE_BIAS THEN B[((b * nheads + h) * seqlen_q + m) * seqlen_k + n] ELSE Zero

RangeQ == 0 .. (seqlen_q - 1)
RangeK == 0 .. (seqlen_k - 1)
RangeD == 0 .. (headdim - 1)

\* _simp_attn for one (batch, head): query * softmax_scale, the einsum with
\* key, the bias, the softmax over the key axis and the einsum with value
simp_attn_w(b, h) ==
  [m \in RangeQ |-> [n \in RangeK |->
    RAdd(RSum(LAMBDA d : RMul(RMul(Elem4(Q, seqlen_q, b, m, h, d), softmax_scale),
                              Elem4(K, seqlen_k, b, n, h, d)), 0, headdim - 1),
         ElemB(b, h, m, n))]]

softmax(w) ==
  [m \in DOMAIN w |->
    LET e == [n \in DOMAIN w[m] |-> Exp2(w[m][n])]
        z == RSum(LAMBDA n : e[n], 0, seqlen_k - 1)
    IN  [n \in DOMAIN w[m] |-> RDiv(e[n], z)]]

simp_attn_p(b, h) == softmax(simp_attn_w(b, h))

simp_attn_o(b, h, p) ==
  [m \in RangeQ |-> [d \in RangeD |->
    RSum(LAMBDA n : RMul(p[m][n], Elem4(V, seqlen_k, b, n, h, d)), 0, seqlen_k - 1)]]

\* the reference output as a buffer of query's shape
simp_attn ==
  LET o == [b \in 0 .. (batch - 1) |-> [h \in 0 .. (nheads - 1) |->
             simp_attn_o(b, h, simp_attn_p(b, h))]]
  IN  [a \in DOMAIN Q |->
        o[a \div (seqlen_q * nheads * headdim)][(a \div headdim) % nheads]
         [(a \div (nheads * headdim)) % seqlen_q][a % headdim]]

\* the vector-Jacobian product of _simp_attn at output gradient Do, for one
\* (batch, head): dp = Do . V^T, ds = p * (dp - sum_n p * dp), and the
\* gradients of the two einsums
simp_attn_ds(b, h, p) ==
  LET dp == [m \in RangeQ |-> [n \in RangeK |->
              RSum(LAMBDA d : RMul(Elem4(Do, seqlen_q, b, m, h, d),
                                   Elem4(V, seqlen_k, b, n, h, d)), 0, headdim - 1)]]
      pdp == [m \in RangeQ |-> RSum(LAMBDA n : RMul(p[m][n], dp[m][n]), 0, seqlen_k - 1)]
  IN  [m \in RangeQ |-> [n \in RangeK |-> RMul(p[m][n], RSub(dp[m][n], pdp[m]))]]

simp_attn_dq(b, h, ds) ==
  [m \in RangeQ |-> [d \in RangeD |->
    RSum(LAMBDA n : RMul(RMul(ds[m][n], Elem4(K, seqlen_k, b, n, h, d)), softmax_scale),
         0, seqlen_k - 1)]]

simp_attn_dk(b, h, ds) ==
  [n \in RangeK |-> [d \in RangeD |->
    RSum(LAMBDA m : RMul(RMul(ds[m][n], Elem4(Q, seqlen_q, b, m, h, d)), softmax_scale),
         0, seqlen_q - 1)]]

simp_attn_dv(b, h, p) ==
  [n \in RangeK |-> [d \in RangeD |->
    RSum(LAMBDA m : RMul(p[m][n], Elem4(Do, seqlen_q, b, m, h, d)), 0, seqlen_q - 1)]]

\* the cotangent slot of the bias: None, or an array
NoCotangent == [none |-> TRUE]
Cotangent(buf) == [none |-> FALSE, array |-> buf]

\* jax.vjp(_simp_attn)(Do): the cotangents of query, key, value and bias as
\* buffers; the cotangent of an absent bias is None
simp_attn_vjp ==
  LET P == [b \in 0 .. (batch - 1) |-> [h \in 0 .. (nheads - 1) |-> simp_attn_p(b, h)]]
      DS == [b \in 0 .. (batch - 1) |-> [h \in 0 .. (nheads - 1) |->
              simp_attn_ds(b, h, P[b][h])]]
      DQ == [b \in 0 .. (batch - 1) |-> [h \in 0 .. (nheads - 1) |->
              simp_attn_dq(b, h, DS[b][h])]]
      DK == [b \in 0 .. (batch - 1) |-> [h \in 0 .. (nheads - 1) |->
              simp_attn_dk(b, h, DS[b][h])]]
      DV == [b \in 0 .. (batch - 1) |-> [h \in 0 .. (nheads - 1) |->
              simp_attn_dv(b, h, P[b][h])]]
  IN  <<[a \in DOMAIN Q |->
          DQ[a \div (seqlen_q * nheads * headdim)][(a \div headdim) % nheads]
            [(a \div (nheads * headdim)) % seqlen_q][a % headdim]],
        [a \in DOMAIN K |->
          DK[a \div (seqlen_k * nheads * headdim)][(a \div headdim) % nheads]
            [(a \div (nheads * headdim)) % seqlen_k][a % headdim]],
        [a \in DOMAIN V |->
          DV[a \div (seqlen_k * nheads * headdim)][(a \div headdim) % nheads]
            [(a \div (nheads * headdim)) % seqlen_k][a % headdim]],
        IF HAVE_BIAS
          THEN Cotangent([a \in DOMAIN B |->
                 DS[a \div (nheads * seqlen_q * seqlen_k)][(a \div (seqlen_q * seqlen_k)) % nheads]
                   [(a \div seqlen_k) % seqlen_q][a % seqlen_k]])
          ELSE NoCotangent>>

\* ------------------------------------------------------- host, forward
NoItems == <<>>

JunkValues == {Zero, NaN}

Fresh(shp) == [a \in Cells(shp) |-> junk]

ArgSets ==
  [batch : 1 .. MaxBatch, nheads : 1 .. MaxHeads,
   seqlen_q : 1 .. MaxSeqQ, seqlen_k : 1 .. MaxSeqK,
   headdim : HeadDims, bias : {None, "bias"}, softmax_scale : Scales]

\* the input tensors, row-major in linear memory; every value is a small
\* integer determined by its address
InitInputs ==
  /\ Q = [a \in Cells(query_shape) |-> R((a + 1) % 2)]
  /\ K = [a \in Cells(key_shape) |-> R(((a \div 2) + a + 1) % 2)]
  /\ V = [a \in Cells(value_shape) |-> R(a + 1)]
  /\ B = IF HAVE_BIAS THEN [a \in Cells(bias_shape) |-> R(((a \div 2) + 1) % 2)]
         ELSE [a \in {0} |-> Zero]   \* the placeholder jnp.zeros((1,))
  /\ Do = [a \in Cells(query_shape) |-> R(1 + ((a \div 2) % 2))]

\* before the forward call: nothing is allocated, launched or returned
NothingLaunched ==
  /\ phase = "call"
  /\ kargs = None
  /\ O = <<>> /\ L = <<>> /\ De = <<>> /\ Dq = <<>> /\ Dk = <<>> /\ Dv = <<>>
  /\ fw = NoItems /\ pw = NoItems /\ bw = NoItems
  /\ stores = {}
  /\ grads = None
  /\ dq_sum = <<>>

Init ==
  /\ args \in {a \in ArgSets :
                 /\ cdiv(a.seqlen_q, BLOCK_M) * a.batch * a.nheads <= MaxGrid
                 /\ cdiv(a.seqlen_k, BLOCK_N) * a.batch * a.nheads <= MaxBwdGrid}
  /\ FLASH_ATTN_BWD_ \in BOOLEAN
  /\ junk \in JunkValues
  /\ InitInputs
  /\ NothingLaunched
  /\ shape = <<>> /\ strides_out = <<>> /\ call = None

\* _fwd_attn_kernel_call on validated arguments: allocate the outputs and
\* launch one work item per grid point
fwd_attn_kernel_call ==
  /\ phase = "call"
  /\ phase' = "fwd"
  /\ kargs' = fwd_strides
  /\ O' = Fresh(query_shape)
  /\ L' = Fresh(l_shape)
  /\ fw' = [w \in fwd_grid |-> fwd_start]
  /\ UNCHANGED <<inputs, De, Dq, Dk, Dv, pw, bw, stores, grads, dq_sum, aux>>

\* a forward work item scans one key tile
fwd_scan(w) ==
  /\ phase = "fwd"
  /\ fw[w].pc = "scan"
  /\ fw' = [fw EXCEPT ![w] = fwd_tile(w, fw[w])]
  /\ UNCHANGED <<inputs, phase, kargs, O, L, De, Dq, Dk, Dv, pw, bw, stores, grads, dq_sum, aux>>

\* a forward work item stores its log-sum-exp and output tile
fwd_store(w) ==
  /\ phase = "fwd"
  /\ fw[w].pc = "store"
  /\ LET lc == fwd_lse_cells(w, fw[w])
         oc == fwd_out_cells(w, fw[w])
     IN  /\ L' = Store(L, lc)
         /\ O' = Store(O, oc)
         /\ stores' = stores \cup StoreEvents("L", lc, w, "fwd", fw[w].j)
                             \cup StoreEvents("O", oc, w, "fwd", fw[w].j)
  /\ fw' = [fw EXCEPT ![w].pc = "done"]
  /\ UNCHANGED <<inputs, phase, kargs, De, Dq, Dk, Dv, pw, bw, grads, dq_sum, aux>>

\* the launch is complete: (o, l, query, key, value, bias) is the residual
fwd_return ==
  /\ phase = "fwd"
  /\ \A w \in fwd_grid : fw[w].pc = "done"
  /\ phase' = "residual"
  /\ UNCHANGED <<inputs, kargs, O, L, De, Dq, Dk, Dv, fw, pw, bw, stores, grads, dq_sum, aux>>

\* ------------------------------------------------------ host, backward
\* _bwd_attn_kernel_call with the tiled backward switched on: delta is
\* jnp.empty_like(l), which XLA fills with zeros, aliased to the pre-pass
\* output, and the pre-pass is launched
bwd_attn_kernel_call ==
  /\ phase = "residual"
  /\ FLASH_ATTN_BWD_
  /\ phase' = "pre"
  /\ kargs' = pre_strides
  /\ De' = [a \in Cells(l_shape) |-> Zero]
  /\ pw' = [w \in pre_grid |-> "run"]
  /\ UNCHANGED <<inputs, O, L, Dq, Dk, Dv, fw, bw, stores, grads, dq_sum, aux>>

\* a pre-pass work item: two loads, the row sums, one store
bwd_do_attn_kernel(w) ==
  /\ phase = "pre"
  /\ pw[w] = "run"
  /\ LET dc == pre_cells(w, pre_delta(pre_o(w), pre_do(w)))
     IN  /\ De' = Store(De, dc)
         /\ stores' = stores \cup StoreEvents("De", dc, w, "pre", 0)
  /\ pw' = [pw EXCEPT ![w] = "done"]
  /\ UNCHANGED <<inputs, phase, kargs, O, L, Dq, Dk, Dv, fw, bw, grads, dq_sum, aux>>

\* the pre-pass is complete: the gradient outputs are allocated and the main
\* kernel is launched
bwd_launch ==
  /\ phase = "pre"
  /\ \A w \in pre_grid : pw[w] = "done"
  /\ phase' = "bwd"
  /\ kargs' = bwd_strides
  /\ Dq' = Fresh(query_shape)
  /\ Dk' = Fresh(key_shape)
  /\ Dv' = Fresh(value_shape)
  /\ dq_sum' = [a \in Cells(query_shape) |-> Zero]
  /\ bw' = [w \in bwd_grid |-> bwd_start]
  /\ UNCHANGED <<inputs, O, L, De, fw, pw, stores, grads, aux>>

\* a main work item runs one loop iteration up to the load of pq
bwd_load(w) ==
  /\ phase = "bwd"
  /\ bw[w].pc = "load"
  /\ bw' = [bw EXCEPT ![w] = bwd_tile(w, bw[w])]
  /\ UNCHANGED <<inputs, phase, kargs, O, L, De, Dq, Dk, Dv, fw, pw, stores, grads,
                 dq_sum, aux>>

\* a main work item stores res to Dq and moves to the next query tile
bwd_store(w) ==
  /\ phase = "bwd"
  /\ bw[w].pc = "store"
  /\ Dq' = Store(Dq, bw[w].res)
  /\ dq_sum' = [a \in DOMAIN dq_sum |->
                 IF a \in DOMAIN bw[w].dq THEN RAdd(dq_sum[a], bw[w].dq[a]) ELSE dq_sum[a]]
  /\ stores' = stores \cup StoreEvents("Dq", bw[w].res, w, "bwd", bw[w].start_m)
  /\ bw' = [bw EXCEPT ![w].pc = IF bw[w].start_m + BLOCK_M < seqlen_q THEN "load" ELSE "final",
                      ![w].start_m = bw[w].start_m + BLOCK_M]
  /\ UNCHANGED <<inputs, phase, kargs, O, L, De, Dk, Dv, fw, pw, grads, aux>>

\* after its loop a main work item stores dv and dk
bwd_final(w) ==
  /\ phase = "bwd"
  /\ bw[w].pc = "final"
  /\ LET vc == bwd_dv_cells(w, bw[w])
         kc == bwd_dk_cells(w, bw[w])
     IN  /\ Dv' = Store(Dv, vc)
         /\ Dk' = Store(Dk, kc)
         /\ stores' = stores \cup StoreEvents("Dv", vc, w, "bwd", bw[w].start_m)
                             \cup StoreEvents("Dk", kc, w, "bwd", bw[w].start_m)
  /\ bw' = [bw EXCEPT ![w].pc = "done"]
  /\ UNCHANGED <<inputs, phase, kargs, O, L, De, Dq, fw, pw, grads, dq_sum, aux>>

\* the main launch is complete: return Dq, Dk, Dv, None
bwd_return ==
  /\ phase = "bwd"
  /\ \A w \in bwd_grid : bw[w].pc = "done"
  /\ phase' = "returned"
  /\ grads' = <<Dq, Dk, Dv, NoCotangent>>
  /\ UNCHANGED <<inputs, kargs, O, L, De, Dq, Dk, Dv, fw, pw, bw, stores, dq_sum, aux>>

\* _bwd_attn_kernel_call with the tiled backward switched off: return
\* f_vjp(Do) of the reference attention
bwd_fallback ==
  /\ phase = "residual"
  /\ ~FLASH_ATTN_BWD_
  /\ phase' = "returned"
  /\ grads' = simp_attn_vjp
  /\ UNCHANGED <<inputs, kargs, O, L, De, Dq, Dk, Dv, fw, pw, bw, stores, dq_sum, aux>>

Next ==
  \/ fwd_attn_kernel_call
  \/ \E w \in DOMAIN fw : fwd_scan(w)
  \/ \E w \in DOMAIN fw : fwd_store(w)
  \/ fwd_return
  \/ bwd_attn_kernel_call
  \/ \E w \in DOMAIN pw : bwd_do_attn_kernel(w)
  \/ bwd_launch
  \/ \E w \in DOMAIN bw : bwd_load(w)
  \/ \E w \in DOMAIN bw : bwd_store(w)
  \/ \E w \in DOMAIN bw : bwd_final(w)
  \/ bwd_return
  \/ bwd_fallback

Spec == Init /\ [][Next]_vars

\* ------------------------------------------------- get_strides alone
\* every tuple of positive integers of rank 1 .. MaxRank with axes 1 .. MaxDim
Shapes == UNION {[1 .. r -> 1 .. MaxDim] : r \in 1 .. MaxRank}

\* no attention call is in progress
NoAttention ==
  /\ args = None /\ FLASH_ATTN_BWD_ = TRUE /\ junk = Zero
  /\ Q = <<>> /\ K = <<>> /\ V = <<>> /\ B = <<>> /\ Do = <<>>
  /\ NothingLaunched

InitStrides ==
  /\ shape \in Shapes
  /\ strides_out = <<>>
  /\ call = None
  /\ NoAttention

get_strides_call ==
  /\ strides_out = <<>>
  /\ strides_out' = get_strides(shape)
  /\ UNCHANGED <<inputs, phase, kargs, O, L, De, Dq, Dk, Dv, fw, pw, bw, stores, grads,
                 dq_sum, shape, call>>

NextStrides == get_strides_call

SpecStrides == InitStrides /\ [][NextStrides]_vars

\* the in-range indices of a shape and the linear offset of one of them
Indices(shp) ==
  {idx \in [1 .. Len(shp) -> 0 .. (MaxDim - 1)] : \A i \in 1 .. Len(shp) : idx[i] < shp[i]}

RECURSIVE Offset(_, _, _)
Offset(idx, strides, i) ==
  IF i > Len(idx) THEN 0 ELSE idx[i] * strides[i] + Offset(idx, strides, i + 1)

\* C10: get_strides returns one stride per axis, stride[i] is the product of
\* shape[i+1:] (the last stride is 1), and index -> sum_i index[i] * stride[i]
\* maps the in-range indices one-to-one onto [0, product(shape))
C10_StridesRowMajorBijection ==
  strides_out # <<>> =>
    /\ Len(strides_out) = Len(shape)
    /\ \A i \in 1 .. Len(shape) :
         strides_out[i] = Prod(SubSeq(shape, i + 1, Len(shape)))
    /\ strides_out[Len(shape)] = 1
    /\ {Offset(idx, strides_out, 1) : idx \in Indices(shape)} = 0 .. (Prod(shape) - 1)
    /\ Cardinality(Indices(shape)) = Prod(shape)

\* get_strides has run on a shape of full rank whose axes all differ from 1
C10_Witness ==
  /\ strides_out # <<>>
  /\ Len(shape) = MaxRank
  /\ \A i \in 1 .. Len(shape) : shape[i] > 1
  /\ shape[1] # shape[Len(shape)]

\* ------------------------------------------- the forward call's checks
\* the calls explored: arrays are (shape, dtype); the query is
\* (1, 1, 1, headdim) and key and value may disagree with it
CallHeadDims == {16, 17, 32, 64, 128, 256}
CallDtypes == {"float16", "bfloat16", "float32"}
CallBlockSizes == {16, 24, 128}

Calls ==
  {[query |-> [shape |-> <<1, 1, 1, hd>>, dtype |-> qt],
    key |-> [shape |-> ks, dtype |-> kt],
    value |-> [shape |-> vs, dtype |-> vt],
    blocksize_q |-> bq, blocksize_k |-> bk,
    pc |-> "entry", error |-> None, launches |-> 0, out |-> None] :
     hd \in CallHeadDims, qt \in CallDtypes, kt \in CallDtypes, vt \in CallDtypes,
     ks \in {<<1, 1, 1, 16>>, <<2, 1, 1, 16>>, <<1, 1, 1, 17>>, <<1, 1, 1, 32>>},
     vs \in {<<1, 1, 1, 16>>, <<1, 2, 1, 16>>, <<1, 1, 1, 17>>},
     bq \in CallBlockSizes, bk \in CallBlockSizes}

\* check_shapes_and_dtypes without its last check
check_shapes_and_dtypes_no_headdim(query, key, value, batch_, seqlen_k_, nheads_, headdim_, blocksize_k, blocksize_q) ==
  IF key.shape # <<batch_, seqlen_k_, nheads_, headdim_>> THEN "Shape mismatch for key."
  ELSE IF value.shape # <<batch_, seqlen_k_, nheads_, headdim_>>
    THEN "Shape mismatch for value."
  ELSE IF query.dtype # key.dtype THEN "Dtype mismatch between query and key."
  ELSE IF key.dtype # value.dtype THEN "Dtype mismatch between key and value."
  ELSE IF query.dtype \notin {"float16", "bfloat16"} THEN "Only fp16 and bf16 are supported."
  ELSE IF blocksize_k % 16 # 0 THEN "blocksize_k should be divisible by 16."
  ELSE IF blocksize_q % 16 # 0 THEN "blocksize_q should be divisible by 16."
  ELSE None

\* check_shapes_and_dtypes with the head dimension checked first
check_shapes_and_dtypes_headdim_first(query, key, value, batch_, seqlen_k_, nheads_, headdim_, blocksize_k, blocksize_q) ==
  IF headdim_ \notin {16, 32, 64, 128, 256} THEN "Unsupported headdim value."
  ELSE check_shapes_and_dtypes_no_headdim(query, key, value, batch_, seqlen_k_, nheads_, headdim_, blocksize_k, blocksize_q)

\* check_shapes_and_dtypes: the message of the first check that fails, or None
check_shapes_and_dtypes(query, key, value, batch_, seqlen_k_, nheads_, headdim_, blocksize_k, blocksize_q) ==
  IF key.shape # <<batch_, seqlen_k_, nheads_, headdim_>> THEN "Shape mismatch for key."
  ELSE IF value.shape # <<batch_, seqlen_k_, nheads_, headdim_>>
    THEN "Shape mismatch for value."
  ELSE IF query.dtype # key.dtype THEN "Dtype mismatch between query and key."
  ELSE IF key.dtype # value.dtype THEN "Dtype mismatch between key and value."
  ELSE IF query.dtype \notin {"float16", "bfloat16"} THEN "Only fp16 and bf16 are supported."
  ELSE IF blocksize_k % 16 # 0 THEN "blocksize_k should be divisible by 16."
  ELSE IF blocksize_q % 16 # 0 THEN "blocksize_q should be divisible by 16."
  ELSE IF headdim_ \notin {16, 32, 64, 128, 256} THEN "Unsupported headdim value."
  ELSE None

InitCall ==
  /\ call \in Calls
  /\ shape = <<>> /\ strides_out = <<>>
  /\ NoAttention

\* _fwd_attn_kernel_call up to the launch: unpack the shapes and run the
\* checks; a failed check raises and the call ends
fwd_call_check ==
  /\ call.pc = "entry"
  /\ LET err == check_shapes_and_dtypes(call.query, call.key, call.value,
                                        call.query.shape[1], call.key.shape[2],
                                        call.query.shape[3], call.query.shape[4],
                                        call.blocksize_k, call.blocksize_q)
     IN  call' = IF err # None THEN [call EXCEPT !.pc = "raised", !.error = err]
                 ELSE [call EXCEPT !.pc = "checked"]
  /\ UNCHANGED <<inputs, phase, kargs, O, L, De, Dq, Dk, Dv, fw, pw, bw, stores, grads,
                 dq_sum, shape, strides_out>>

\* the rest of _fwd_attn_kernel_call: the launch, returning (o, l)
fwd_call_launch ==
  /\ call.pc = "checked"
  /\ call' = [call EXCEPT !.pc = "returned", !.launches = call.launches + 1,
                          !.out = <<"o", "l">>]
  /\ UNCHANGED <<inputs, phase, kargs, O, L, De, Dq, Dk, Dv, fw, pw, bw, stores, grads,
                 dq_sum, shape, strides_out>>

NextCall == fwd_call_check \/ fwd_call_launch

SpecCall == InitCall /\ [][NextCall]_vars

\* the preconditions of a forward call, one by one
CallKeyShapeOK ==
  call.key.shape = <<call.query.shape[1], call.key.shape[2], call.query.shape[3],
                     call.query.shape[4]>>
CallValueShapeOK ==
  call.value.shape = <<call.query.shape[1], call.key.shape[2], call.query.shape[3],
                       call.query.shape[4]>>
CallDtypesOK ==
  /\ call.query.dtype = call.key.dtype
  /\ call.key.dtype = call.value.dtype
  /\ call.query.dtype \in {"float16", "bfloat16"}
CallBlocksOK == call.blocksize_q % 16 = 0 /\ call.blocksize_k % 16 = 0
CallHeadDimOK == call.query.shape[4] \in {16, 32, 64, 128, 256}

\* C5: a forward call that violates any precondition (key or value shape,
\* differing element types, an element type other than fp16/bf16, a tile size
\* not divisible by 16, a head dimension outside {16,32,64,128,256}) ends in
\* an error with no kernel launched and no output or log-sum-exp produced
C5_InvalidCallRaisesBeforeLaunch ==
  (call.pc # "entry" /\ ~(CallKeyShapeOK /\ CallValueShapeOK /\ CallDtypesOK
                          /\ CallBlocksOK /\ CallHeadDimOK))
    => (call.pc = "raised" /\ call.error # None /\ call.launches = 0 /\ call.out = None)

\* a call whose only defect is head_dim = 17 has been rejected
C5_Witness ==
  /\ call.pc = "raised"
  /\ call.query.shape[4] = 17
  /\ CallKeyShapeOK /\ CallValueShapeOK /\ CallDtypesOK /\ CallBlocksOK
  /\ call.launches = 0

\* C11: the validator's checks run in the order key shape, value shape,
\* query/key element type, key/value element type, fp16-or-bf16, the two tile
\* sizes, head dimension; the error raised is that of the earliest violated
\* check, and an input violating none passes without error
C11_FirstViolatedCheckIsRaised ==
  call.pc # "entry" =>
    /\ call.error =
         (IF ~CallKeyShapeOK THEN "Shape mismatch for key."
          ELSE IF ~CallValueShapeOK THEN "Shape mismatch for value."
          ELSE IF call.query.dtype # call.key.dtype
            THEN "Dtype mismatch between query and key."
          ELSE IF call.key.dtype # call.value.dtype
            THEN "Dtype mismatch between key and value."
          ELSE IF call.query.dtype \notin {"float16", "bfloat16"}
            THEN "Only fp16 and bf16 are supported."
          ELSE IF call.blocksize_k % 16 # 0 THEN "blocksize_k should be divisible by 16."
          ELSE IF call.blocksize_q % 16 # 0 THEN "blocksize_q should be divisible by 16."
          ELSE IF ~CallHeadDimOK THEN "Unsupported headdim value."
          ELSE None)
    /\ (call.error = None) = (call.pc \in {"checked", "returned"})
    /\ (call.error # None) = (call.pc = "raised")

\* a call violating the key shape, the element type, a tile size and the head
\* dimension at once has been rejected for its key shape
C11_Witness ==
  /\ call.pc = "raised"
  /\ ~CallKeyShapeOK /\ ~CallDtypesOK /\ ~CallBlocksOK /\ ~CallHeadDimOK
  /\ call.error = "Shape mismatch for key."

\* ------------------------------------------------------------ claims
FwdDone == phase \notin {"call", "fwd"}
PreDone == phase \in {"bwd", "returned"} /\ FLASH_ATTN_BWD_
TiledReturned == phase = "returned" /\ FLASH_ATTN_BWD_

StoresTo(launch, buf) == {e \in stores : e.launch = launch /\ e.buf = buf}

\* C1: after a forward call every output row equals the softmax-normalised
\* sum over all key positions of exp(scale * q.k + bias) times v, for every
\* batch and head count, with or without bias, and for every tiling
C1_ForwardMatchesReference == phase = "residual" => O = simp_attn

\* C2: the (dQuery, dKey, dValue) the tiled backward returns equals the
\* gradient of the reference attention on the same inputs and output gradient
C2_BackwardMatchesReference ==
  TiledReturned => <<grads[1], grads[2], grads[3]>> = SubSeq(simp_attn_vjp, 1, 3)

\* C3: in every interleaving of the key-tile work items the final dQuery
\* equals the initial buffer plus the sum of all stored contributions: no
\* contribution is lost or applied twice
C3_DqKeepsEveryContribution ==
  TiledReturned => \A a \in DOMAIN Dq : Dq[a] = RAdd(junk, dq_sum[a])

\* C4: the pre-pass writes a delta entry for exactly the (b, h, m) with
\* b < batch, h < nheads, m < seqlen_q, the entries of the log-sum-exp buffer
\* the forward kernel stored
C4_PrePassWritesEveryDelta ==
  PreDone => /\ {e.addr : e \in StoresTo("pre", "De")} = Cells(l_shape)
             /\ {e.addr : e \in StoresTo("pre", "De")}
                  = {e.addr : e \in StoresTo("fwd", "L")}

\* C6: the gradient rule returns (dQuery, dKey, dValue, None) on every path:
\* tiled or fallback, with or without bias
C6_BiasCotangentIsNone ==
  phase = "returned" => Len(grads) = 4 /\ grads[4] = NoCotangent

\* C7: the forward work items store disjoint sets of output and log-sum-exp
\* cells, each cell of O and L is stored exactly once, by the work item of its
\* query tile, batch and head, and nothing else is stored
C7_ForwardStoresDisjointAndExact ==
  /\ \A e \in stores : e.launch = "fwd" =>
       /\ e.buf \in {"O", "L"}
       /\ e.buf = "O" =>
            /\ e.addr \in Cells(query_shape)
            /\ e.by = <<((e.addr \div (nheads * headdim)) % seqlen_q) \div BLOCK_M,
                        e.addr \div (seqlen_q * nheads * headdim),
                        (e.addr \div headdim) % nheads>>
       /\ e.buf = "L" =>
            /\ e.addr \in Cells(l_shape)
            /\ e.by = <<(e.addr % seqlen_q) \div BLOCK_M,
                        e.addr \div (nheads * seqlen_q),
                        (e.addr \div seqlen_q) % nheads>>
  /\ \A w \in DOMAIN fw : fw[w].pc = "done" =>
       /\ Cardinality({e \in StoresTo("fwd", "O") : e.by = w})
            = Cardinality({p \in RowsM \X RangeD : w[1] * BLOCK_M + p[1] < seqlen_q})
       /\ Cardinality({e \in StoresTo("fwd", "L") : e.by = w})
            = Cardinality({i \in RowsM : w[1] * BLOCK_M + i < seqlen_q})
  /\ FwdDone =>
       /\ {e.addr : e \in StoresTo("fwd", "O")} = Cells(query_shape)
       /\ {e.addr : e \in StoresTo("fwd", "L")} = Cells(l_shape)

\* a forward launch of four work items over two heads and two query tiles,
\* the second tile partly out of range, has completed
C7_Witness ==
  /\ phase = "residual"
  /\ Cardinality(fwd_grid) = 4 /\ nheads = 2 /\ seqlen_q = 3 /\ headdim = 2
  /\ \A w \in fwd_grid : fw[w].pc = "done"

\* C8: every dKey and dValue element is stored exactly once, by the work item
\* owning its key tile and (batch, head), after that work item has scanned all
\* query tiles; no work item touches the rows of another key tile
C8_DkDvStoredOnceByOwner ==
  /\ \A e \in stores : (e.launch = "bwd" /\ e.buf \in {"Dk", "Dv"}) =>
       /\ e.addr \in Cells(key_shape)
       /\ e.by = <<((e.addr \div (nheads * headdim)) % seqlen_k) \div BLOCK_N, 0,
                   (e.addr \div (seqlen_k * nheads * headdim)) * nheads
                     + ((e.addr \div headdim) % nheads)>>
       /\ e.at >= seqlen_q
  /\ \A w \in DOMAIN bw : \A buf \in {"Dk", "Dv"} :
       /\ bw[w].pc # "done" => {e \in StoresTo("bwd", buf) : e.by = w} = {}
       /\ bw[w].pc = "done" =>
            Cardinality({e \in StoresTo("bwd", buf) : e.by = w})
              = Cardinality({p \in ColsN \X RangeD : w[1] * BLOCK_N + p[1] < seqlen_k})
  /\ TiledReturned =>
       /\ {e.addr : e \in StoresTo("bwd", "Dk")} = Cells(key_shape)
       /\ {e.addr : e \in StoresTo("bwd", "Dv")} = Cells(value_shape)

\* the main launch has completed with two key tiles, the second partly out of
\* range, each having scanned two query tiles
C8_Witness ==
  /\ TiledReturned
  /\ seqlen_k = 3 /\ seqlen_q = 3 /\ headdim = 2
  /\ Cardinality(bwd_grid) = 2

\* C9: across the forward, pre-pass and main launches dQuery is the only
\* buffer with an element written by more than one work item, and query, key,
\* value and bias are never written
C9_OnlyDqHasSeveralWriters ==
  /\ \A e \in stores : e.buf \in {"O", "L", "De", "Dq", "Dk", "Dv"}
  /\ \A e1, e2 \in stores :
       (e1.launch = e2.launch /\ e1.buf = e2.buf /\ e1.addr = e2.addr /\ e1.by # e2.by)
         => e1.buf = "Dq"

\* the same call with bias = zeros((batch, nheads, seqlen_q, seqlen_k)): the
\* buffer bound to B and the strides bound to stride_bb, stride_bh, stride_bm
zero_bias == [a \in Cells(bias_shape) |-> Zero]
zero_bias_strides == SubSeq(get_strides(bias_shape), 1, 3)

\* one forward and one backward iteration compiled with HAVE_BIAS on the zero bias
fwd_tile_zero_bias(w, st) ==
  fwd_tile_max(TRUE, st, w, fwd_tile_qk(TRUE, fwd_b(zero_bias, zero_bias_strides, w, st.j), w, st.j))

bwd_tile_zero_bias(w, st) ==
  bwd_tile_qk(TRUE, bwd_b(zero_bias, zero_bias_strides, w, st.start_m), st, w, bwd_q(w, st.start_m), bwd_k(w))

\* C12: without a bias, every iteration of the forward scan (running maximum,
\* log-sum-exp, output accumulator and hence the probabilities) and of the
\* backward scan (the gradient accumulators) computes what the bias path
\* computes from the same state with an all-zero bias, for every softmax_scale
C12_NoBiasEqualsZeroBias ==
  ~HAVE_BIAS =>
    /\ phase = "fwd" =>
         \A w \in fwd_grid : fw[w].pc = "scan" => fwd_tile(w, fw[w]) = fwd_tile_zero_bias(w, fw[w])
    /\ phase = "bwd" =>
         \A w \in bwd_grid : bw[w].pc = "load" => bwd_tile(w, bw[w]) = bwd_tile_zero_bias(w, bw[w])

\* a forward work item run alone from state st to the end of its scan, with
\* buf as the memory bound to B
RECURSIVE fwd_run(_, _, _)
fwd_run(buf, w, st) ==
  IF st.pc # "scan" THEN st
  ELSE fwd_run(buf, w, fwd_tile_max(HAVE_BIAS, st, w,
                 fwd_tile_qk(HAVE_BIAS, fwd_b(buf, bias_strides, w, st.j), w, st.j)))

\* what a launch leaves in a buffer of shape shp when its work items run one
\* after the other; cells(w) are the cells work item w stores
fwd_launch(shp, cells) ==
  [a \in Cells(shp) |->
    IF \E w \in fwd_grid : a \in DOMAIN cells[w]
      THEN cells[CHOOSE w \in fwd_grid : a \in DOMAIN cells[w]][a]
      ELSE junk]

fwd_launch_O(buf) == fwd_launch(query_shape, [w \in fwd_grid |-> fwd_out_cells(w, fwd_run(buf, w, fwd_start))])
fwd_launch_L(buf) == fwd_launch(l_shape, [w \in fwd_grid |-> fwd_lse_cells(w, fwd_run(buf, w, fwd_start))])

\* the bias buffer followed by memory that holds 1 where this launch found junk
B_other_memory ==
  [a \in 0 .. (Prod(bias_shape) + BLOCK_M * seqlen_k + BLOCK_N) |->
    IF a \in DOMAIN B THEN B[a] ELSE One]

\* the launch's O and L do not depend on the order in which work items ran
C13_InterleavingIndependent ==
  phase = "residual" => O = fwd_launch_O(B) /\ L = fwd_launch_L(B)

\* C13: two forward launches on identical inputs leave identical O and L:
\* whatever the interleaving of the work items, O and L are what the work
\* items produce run one after the other, and they are the same in a launch
\* that differs only in the memory outside the input buffers
C13_ForwardIsDeterministic ==
  phase = "residual" =>
    /\ O = fwd_launch_O(B) /\ L = fwd_launch_L(B)
    /\ O = fwd_launch_O(B_other_memory) /\ L = fwd_launch_L(B_other_memory)

\* the row-major address of element (off_b, m, off_h, d) of a query-shaped
\* array and of element (off_b, off_h, m) of an lse-shaped array, for the batch
\* and head of backward work item w
bwd_row_addr(w, m, d) == ((bwd_off_b(w) * seqlen_q + m) * nheads + bwd_off_h(w)) * headdim + d
bwd_lse_addr(w, m) == (bwd_off_b(w) * nheads + bwd_off_h(w)) * seqlen_q + m

\* the rows of the iteration at start_m that exist
bwd_rows(start_m) == {i \in RowsM : start_m + i < seqlen_q}

\* the tiles the iteration at start_m loads hold the elements of rows
\* start_m .. start_m + BLOCK_M - 1 of the work item's batch and head
bwd_loads_own_rows(w, start_m) ==
  \A i \in bwd_rows(start_m) :
    /\ \A d \in 0 .. (headdim - 1) :
         /\ bwd_q(w, start_m)[i][d] = Q[bwd_row_addr(w, start_m + i, d)]
         /\ bwd_do(w, start_m)[i][d] = Do[bwd_row_addr(w, start_m + i, d)]
    /\ bwd_l(w, start_m)[i] = L[bwd_lse_addr(w, start_m + i)]
    /\ bwd_di(w, start_m)[i] = De[bwd_lse_addr(w, start_m + i)]
    /\ HAVE_BIAS =>
         \A n \in ColsN : bwd_offs_n(w, n) < seqlen_k =>
           bwd_b(B, bias_strides, w, start_m)[i][n]
             = ElemB(bwd_off_b(w), bwd_off_h(w), start_m + i, bwd_offs_n(w, n))

\* C14: in the backward scan the iteration at start_m loads q, do, bias, lse
\* and delta of rows start_m .. start_m + BLOCK_M - 1 of the work item's batch
\* and head, stores to dQuery only elements of those rows, and a work item
\* that finished its scan has stored every dQuery element of its batch and
\* head exactly once
C14_BackwardScanStaysInRows ==
  (phase = "bwd" /\ FLASH_ATTN_BWD_) =>
    /\ \A w \in bwd_grid : bw[w].pc = "load" => bwd_loads_own_rows(w, bw[w].start_m)
    /\ \A e \in StoresTo("bwd", "Dq") :
         \E i \in bwd_rows(e.at), d \in 0 .. (headdim - 1) :
           e.addr = bwd_row_addr(e.by, e.at + i, d)
    /\ \A w \in bwd_grid : bw[w].pc \in {"final", "done"} =>
         \A m \in 0 .. (seqlen_q - 1), d \in 0 .. (headdim - 1) :
           Cardinality({e \in StoresTo("bwd", "Dq") :
                          e.by = w /\ e.addr = bwd_row_addr(w, m, d)}) = 1

\* sum over d of output[b, m, h, d] * d_output[b, m, h, d]
delta_ref(b, h, m) ==
  RSum(LAMBDA d : RMul(Elem4(O, seqlen_q, b, m, h, d), Elem4(Do, seqlen_q, b, m, h, d)),
       0, headdim - 1)

\* C15: every delta entry the pre-pass writes, at the address of (b, h, m) in
\* the (batch, nheads, seqlen_q) buffer, is the sum over d of
\* output[b, m, h, d] * d_output[b, m, h, d], for every head count and length
C15_DeltaIsRowDot ==
  (phase \in {"pre", "bwd", "returned"} /\ FLASH_ATTN_BWD_) =>
    \A e \in StoresTo("pre", "De") :
      /\ e.addr \in DOMAIN De
      /\ De[e.addr] = delta_ref(e.addr \div (nheads * seqlen_q),
                                (e.addr \div seqlen_q) % nheads, e.addr % seqlen_q)

\* row i of forward work item w and column n of key tile j are in range
fwd_row_in_range(w, i) == fwd_offs_m(w, i) < seqlen_q
fwd_col_in_range(j, n) == j + n < seqlen_k

\* C16: in every iteration of the forward scan the loads of q, k, v and bias
\* read only positions inside the sequence and the head dimension and yield 0
\* elsewhere, the bias mask is on exactly where the row is below seqlen_q and
\* the key position below seqlen_k, and the scores of key positions at or
\* beyond seqlen_k are -inf when the row maximum is taken
C16_ForwardLoadsInRange ==
  phase = "fwd" =>
    \A w \in fwd_grid : fw[w].pc = "scan" =>
      LET j == fw[w].j
          qk == fwd_tile_qk(HAVE_BIAS, fwd_b(B, bias_strides, w, j), w, j)
      IN  /\ \A i \in RowsM, d \in ColsD :
               /\ fwd_q_mask(w, i, d) => (fwd_row_in_range(w, i) /\ d < headdim)
               /\ ~(fwd_row_in_range(w, i) /\ d < headdim) => fwd_q(w)[i][d] = Zero
          /\ \A n \in ColsN, d \in ColsD :
               /\ fwd_kv_mask(j, n, d) => (fwd_col_in_range(j, n) /\ d < headdim)
               /\ ~(fwd_col_in_range(j, n) /\ d < headdim) =>
                    (fwd_k(w, j)[n][d] = Zero /\ fwd_v(w, j)[n][d] = Zero)
          /\ HAVE_BIAS =>
               \A i \in RowsM, n \in ColsN :
                 /\ fwd_b_mask(w, j, i, n) = (fwd_row_in_range(w, i) /\ fwd_col_in_range(j, n))
                 /\ ~(fwd_row_in_range(w, i) /\ fwd_col_in_range(j, n)) =>
                      fwd_b(B, bias_strides, w, j)[i][n] = Zero
          /\ \A i \in RowsM, n \in ColsN : ~fwd_col_in_range(j, n) => qk[i][n] = NegInf

\* the scaled (and biased) scores of key tile j as the kernel holds them
fwd_scores(w, j) ==
  LET qk == fwd_qk_pad(DotT(fwd_q(w), fwd_k(w, j)), j)
      b == fwd_b(B, bias_strides, w, j)
  IN  [i \in RowsM |-> [n \in ColsN |->
        RAdd(RMul(qk[i][n], softmax_scale), IF HAVE_BIAS THEN b[i][n] ELSE Zero)]]

\* the largest score of row i over the key tiles before tile j, as 2^score
RECURSIVE fwd_seen_max(_, _, _)
fwd_seen_max(w, j, i) ==
  IF j <= 0 THEN Zero
  ELSE RMax(fwd_seen_max(w, j - BLOCK_N, i), Exp2(RowMax(fwd_scores(w, j - BLOCK_N)[i])))

C18_DqIndependentOfInitialBuffer ==
  TiledReturned => \A a \in DOMAIN grads[1] : grads[1][a] = dq_sum[a]

\* p and ds of the backward iteration of work item w at start_m
bwd_iter_p(w, start_m) ==
  bwd_p(HAVE_BIAS, bwd_b(B, bias_strides, w, start_m),
        bwd_qk_pad(w, DotT(bwd_q(w, start_m), bwd_k(w))), bwd_l(w, start_m))

bwd_iter_ds(w, start_m) ==
  bwd_ds(bwd_iter_p(w, start_m), DotT(bwd_do(w, start_m), bwd_v(w)), bwd_di(w, start_m))

\* the padded rows of the iteration at start_m and the padded key positions
\* of work item w
bwd_padded_rows(start_m) == {i \in RowsM : start_m + i >= seqlen_q}
bwd_padded_cols(w) == {n \in ColsN : bwd_offs_n(w, n) >= seqlen_k}

\* C19: with a positive softmax_scale, in every iteration of the backward
\* scan each padded query row adds exactly 0 to the dV and dK accumulators
\* (its terms p * do and ds * q) and each padded key position adds exactly 0
\* to the dQ contribution (its terms ds * k), with and without bias
C19_PaddingAddsZero ==
  (phase = "bwd" /\ FLASH_ATTN_BWD_ /\ args.softmax_scale > 0) =>
    \A w \in bwd_grid : bw[w].pc = "load" =>
      LET start_m == bw[w].start_m
          p == bwd_iter_p(w, start_m)
          ds == bwd_iter_ds(w, start_m)
      IN  /\ \A i \in bwd_padded_rows(start_m), n \in ColsN, d \in ColsD :
               /\ RMul(p[i][n], bwd_do(w, start_m)[i][d]) = Zero
               /\ RMul(ds[i][n], bwd_q(w, start_m)[i][d]) = Zero
          /\ \A n \in bwd_padded_cols(w), i \in RowsM, d \in ColsD :
               RMul(ds[i][n], bwd_k(w)[n][d]) = Zero

=============================================================================
